---- MODULE Spec2Model ----
(***************************************************************************)
(* Weekly award subsystem of inugoya-discord-bot:                          *)
(*   src/bot/features/weeklyAwards/weeklyAward.js  (scheduler, handlers)   *)
(*   src/bot/features/weeklyAwards/db.js           (sqlite tables)         *)
(*                                                                         *)
(* Time is counted in slots.  One slot stands for one (weekday, hour,      *)
(* minute) value of the clock that tick compares with its target; a week   *)
(* is Week slots long and the clock wraps around.  The 1 second poll of    *)
(* tick is shorter than a slot, so a polling chain evaluates every slot;   *)
(* the model keeps one evaluation per slot (delay Poll).                   *)
(***************************************************************************)
EXTENDS Integers, FiniteSets, Sequences, TLC

\* ---------------------------------------------------------------- bounds
Week == 4          \* slots in one weekly cycle of the clock
MaxChains == 2     \* tick chains of one guild that the model follows at once
MaxBody == 2       \* slots a report body may stay suspended in its awaits
MaxCount == 4      \* largest reactions_count of the rows a report is drawn from
MaxSetCount == 2   \* largest reactionsCount passed to db.set
MaxDay == 1        \* days the sqlite clock moves on while the table is written
MaxReactions == 2  \* largest total of reactions a message carries
MaxHandlers == 2   \* reaction handlers in flight at once
MaxAttempts == 2   \* busy failures one call of a db method runs into

\* ------------------------------------------------------ program constants
Slack == 1         \* 7 days - 6.9 days, in slots
TopGroups == 3     \* "take 3 elements"
RetentionDays == 7 \* db.deleteOutdated(guildId, 7)
Poll == 1          \* the 1000 ms re-check, in slots (next slot)
LongFullWeek == Week
Long == Week - Slack   \* setTimeout(..., 86400 * 1000 * 6.9)

Guilds == {"g1", "g2"}
Commanded == {"g1"}   \* the guild whose commands and events Spec follows
Chains == 1..MaxChains
Slots == 0..(Week - 1)
TargetSlots == {1}   \* the report times the guilds are configured with
NoRec == [present |-> FALSE, guildName |-> "", channelId |-> "", channelName |-> ""]
NoTime == -1

VARIABLES
  now,        \* dayjs().tz() at slot granularity
  ready,      \* Events.ClientReady has been handled by this process
  config,     \* table post_target: guild -> record or NoRec
  times,      \* table times: guild -> target slot or NoTime
  records,    \* table reacted_messages: the rows in rowid order
  instances,  \* Map guildId -> Timeout
  chain,      \* chain[g][c]: one activation chain of tick for guild g
  startPc,    \* startAward(g) suspended in "await stopAward(guildId)"
  stopPc,     \* stopAward(g) suspended in "await log(...)"
  textChannel,\* the channel that the tick of g finds by its names is a GuildText one
  today,      \* julianday('now') / datetime('now') of sqlite, in days
  posted,     \* what the last report body of the guild sent out
  initiated,  \* history: reports initiated for g during the current slot
  lastOp,     \* history: the last db.set or db.delete call
  stopped,    \* history: stopAward(g) returned and no startAward(g) ran since
  reactions,  \* Discord: the current total of reactions of a message
  handlers,   \* MessageReactionAdd / MessageReactionRemove handlers in flight
  call,       \* the call of a method of db that is followed, with its history
  directory,  \* Discord: the guilds the bot is in, with their channels, in cache order
  failed      \* history: a tick of g threw and no startAward(g) ran since

vars == <<now, ready, config, times, records, instances, chain, startPc, stopPc,
          textChannel, today, posted, initiated, lastOp, stopped, reactions, handlers,
          call, directory, failed>>

\* rem: slots until the timer expires; week: the timer is the 6.9 day one;
\* body: slots the report body of this activation has taken; since: slots since
\* this activation matched its target
IdleChain == [pc |-> "idle", rem |-> 0, week |-> FALSE, target |-> 0, body |-> 0,
              since |-> 0,
              guildName |-> "", channelName |-> ""]
NoOp == [kind |-> "none", key |-> <<>>, count |-> 0, content |-> ""]
NoCall == [pc |-> "none", target |-> 0, guildName |-> "", channelName |-> ""]
NoHandle == [has |-> FALSE, timer |-> 0]
\* kind: "none" before any report, "nochannel" when the target channel was not found,
\* "nowinners", "report", or "empty" when the channel was found and nothing was sent;
\* log: the calls of db, channel and thread the report body made, in their order
\* dest: the guild and channel the body sent to; fetched: the keys fetchMessageByIds
\* was called with
NoChannel == [guildId |-> "", channelId |-> ""]
NothingPosted == [kind |-> "none", blocks |-> <<>>, resolved |-> {}, log |-> <<>>,
                  dest |-> NoChannel, fetched |-> {}]
\* if the channel is not found or not a GuildText one the body does nothing
NoChannelOutcomePosts ==
  [kind |-> "nochannel", blocks |-> <<>>, resolved |-> {},
   log |-> <<[op |-> "send", to |-> "channel", arg |-> 0]>>,
   dest |-> NoChannel, fetched |-> {}]
NoChannelOutcome ==
  [kind |-> "nochannel", blocks |-> <<>>, resolved |-> {}, log |-> <<>>,
   dest |-> NoChannel, fetched |-> {}]

\* client.guilds and guild.channels.cache: the guilds the bot is in and their
\* channels, each with its id and its display name
GuildEntry(id, name, channels) == [guildId |-> id, name |-> name, channels |-> channels]
ChannelEntry(id, name) == [channelId |-> id, name |-> name]
HomeDirectory ==
  <<GuildEntry("g1", "inugoya", <<ChannelEntry("c1", "award")>>),
    GuildEntry("g2", "inugoya", <<ChannelEntry("c1", "award")>>)>>

\* guilds.find(guild => guild.name === guildName), then
\* guild.channels.cache.find(channel => channel.name === channelName)
FindChannel(dir, guildName, channelName) ==
  LET gs == SelectSeq(dir, LAMBDA e : e.name = guildName)
  IN IF gs = <<>> THEN NoChannel
     ELSE LET cs == SelectSeq(Head(gs).channels, LAMBDA ch : ch.name = channelName)
          IN IF cs = <<>> THEN NoChannel
             ELSE [guildId |-> Head(gs).guildId, channelId |-> Head(cs).channelId]
Step(op, to, arg) == [op |-> op, to |-> to, arg |-> arg]

\* the messages whose reactions are followed, all posted by users in a guild
ReactKeys == {<<"g1", "c1", "m1">>}
HandlerIds == 1..MaxHandlers
NoReactions == [k \in ReactKeys |-> 0]
\* pc: "idle", "fetch" (await reaction.message.fetch()) or "fetched"; count is the
\* total of reactions.cache of the fetched message
IdleHandler == [pc |-> "idle", kind |-> "", key |-> <<>>, count |-> 0]
NoHandlers == [h \in HandlerIds |-> IdleHandler]
\* no method of db is being followed
\* pc: "none", "run" (the statement is about to run), "sleep" (await setTimeout()),
\* "counted" (deleteOutdated suspended in "yield count"), "done" (returned) or
\* "error" (threw to the caller); attempts: busy failures so far; applied: statements
\* that changed the database; last: outcome of the last statement; yields: what the
\* generator yielded, Completion for "yield;"; at: julianday('now') of the last count;
\* saved: the tables at the call
NoDbCall == [op |-> "none", pc |-> "none", guildId |-> "", attempts |-> 0,
             applied |-> 0, last |-> "", error |-> "", yields |-> <<>>,
             removed |-> 0, at |-> 0, saved |-> <<>>]
Completion == -1

\* chains of g that hold a pending timer or a running tick
Active(g) == {c \in Chains : chain[g][c].pc # "idle"}
FreeChains(ch, g) == {c \in Chains : ch[g][c].pc = "idle"}

\* the timer a handle of the registry refers to is pending
HandlePending(g) ==
  /\ instances[g].has
  /\ instances[g].timer # 0


\* ------------------------------------------------- table reacted_messages
\* records is the table in rowid order; a row is
\* [guildId, channelId, messageId, content, reactionsCount, timestamp, createdAt, updatedAt]
KeyOf(r) == <<r.guildId, r.channelId, r.messageId>>
Indices(rows) == 1..Len(rows)
Range(s) == {s[i] : i \in 1..Len(s)}

\* insert ... on conflict (guild_id, channel_id, message_id) do update set ...
SetRowAlwaysInsert(rows, m, n, t) ==
  Append(rows, [guildId |-> m.guildId, channelId |-> m.channelId, messageId |-> m.id,
                content |-> m.content, reactionsCount |-> n,
                timestamp |-> m.createdTimestamp, createdAt |-> t, updatedAt |-> t])
SetRowResetsCreated(rows, m, n, t) ==
  IF \E i \in Indices(rows) : KeyOf(rows[i]) = <<m.guildId, m.channelId, m.id>>
  THEN [i \in Indices(rows) |->
          IF KeyOf(rows[i]) = <<m.guildId, m.channelId, m.id>>
          THEN [rows[i] EXCEPT !.content = m.content, !.reactionsCount = n,
                               !.createdAt = t, !.updatedAt = t]
          ELSE rows[i]]
  ELSE SetRowAlwaysInsert(rows, m, n, t)
SetRow(rows, m, n, t) ==
  IF \E i \in Indices(rows) : KeyOf(rows[i]) = <<m.guildId, m.channelId, m.id>>
  THEN [i \in Indices(rows) |->
          IF KeyOf(rows[i]) = <<m.guildId, m.channelId, m.id>>
          THEN [rows[i] EXCEPT !.content = m.content, !.reactionsCount = n, !.updatedAt = t]
          ELSE rows[i]]
  ELSE Append(rows, [guildId |-> m.guildId, channelId |-> m.channelId, messageId |-> m.id,
                     content |-> m.content, reactionsCount |-> n,
                     timestamp |-> m.createdTimestamp, createdAt |-> t, updatedAt |-> t])

\* delete from reacted_messages where guild_id = .. and channel_id = .. and message_id = ..
DeleteRow(rows, g, ch, id) ==
  SelectSeq(rows, LAMBDA r : KeyOf(r) # <<g, ch, id>>)

\* where guild_id = @guildId and julianday('now') - julianday(timestamp) > @days
Outdated(r, g, days, t) == r.guildId = g /\ t - r.timestamp > days
CountOutdated(rows, g, days, t) ==
  Cardinality({i \in Indices(rows) : Outdated(rows[i], g, days, t)})
DeleteOutdatedRows(rows, g, days, t) ==
  SelectSeq(rows, LAMBDA r : ~Outdated(r, g, days, t))

\* ------------------------------------------------------------ tally (tick)
\* fetchesMessage for every row of db.iterate(), Promise.all, filter(x => x != null);
\* resolvable is the set of keys fetchMessageByIds finds a message for
MessagesOfAnyGuild(rows, g, resolvable) ==
  LET kept == SelectSeq(rows, LAMBDA r : KeyOf(r) \in resolvable)
  IN [i \in 1..Len(kept) |->
        [message |-> <<kept[i].channelId, kept[i].messageId>>,
         reactionsCount |-> kept[i].reactionsCount]]
MessagesKeepUnresolved(rows, g, resolvable) ==
  LET kept == SelectSeq(rows, LAMBDA r : r.guildId = g)
  IN [i \in 1..Len(kept) |->
        [message |-> <<kept[i].channelId, kept[i].messageId>>,
         reactionsCount |-> kept[i].reactionsCount]]
\* if (record.guildId !== guildId) return null; before fetchMessageByIds is called
FetchCalls(rows, g) == {KeyOf(rows[i]) : i \in {j \in Indices(rows) : rows[j].guildId = g}}
Messages(rows, g, resolvable) ==
  LET kept == SelectSeq(rows, LAMBDA r : r.guildId = g /\ KeyOf(r) \in resolvable)
  IN [i \in 1..Len(kept) |->
        [message |-> <<kept[i].channelId, kept[i].messageId>>,
         reactionsCount |-> kept[i].reactionsCount]]

\* messages.reduce((acc, { message, reactionsCount }) =>
\*   ({ ...acc, [reactionsCount]: [...acc[reactionsCount] ?? [], message] }), {})
RECURSIVE TallyReduce(_, _)
TallyReduce(msgs, acc) ==
  IF msgs = <<>> THEN acc
  ELSE LET n == Head(msgs).reactionsCount
           prev == IF n \in DOMAIN acc THEN acc[n] ELSE <<>>
       IN TallyReduce(Tail(msgs),
            [k \in (DOMAIN acc) \cup {n} |->
               IF k = n THEN Append(prev, Head(msgs).message) ELSE acc[k]])

\* Object.entries(talliedMessages).sort(([a, ], [b, ]) => (+b) - (+a))
RECURSIVE SortDesc(_)
SortDesc(tallied) ==
  IF DOMAIN tallied = {} THEN <<>>
  ELSE LET mx == CHOOSE n \in DOMAIN tallied : \A k \in DOMAIN tallied : k <= n
       IN <<[count |-> mx, messages |-> tallied[mx]]>>
            \o SortDesc([k \in (DOMAIN tallied) \ {mx} |-> tallied[k]])

\* messagesArray.filter((_, i) => i < Math.min(messagesArray.length, 3))
TakeEvery(arr) == arr
TakeTop(arr) ==
  SubSeq(arr, 1, IF Len(arr) < TopGroups THEN Len(arr) ELSE TopGroups)

\* let rank = 1; for (...) { contents.push(...); rank += messages.length; }
RECURSIVE BuildContentsOrdinal(_, _)
BuildContentsOrdinal(arr, rank) ==
  IF arr = <<>> THEN <<>>
  ELSE <<[rank |-> rank, count |-> Head(arr).count, items |-> Head(arr).messages]>>
         \o BuildContentsOrdinal(Tail(arr), rank + 1)
RECURSIVE BuildContents(_, _)
BuildContents(arr, rank) ==
  IF arr = <<>> THEN <<>>
  ELSE <<[rank |-> rank, count |-> Head(arr).count, items |-> Head(arr).messages]>>
         \o BuildContents(Tail(arr), rank + Len(Head(arr).messages))

Contents(msgs) == BuildContents(TakeTop(SortDesc(TallyReduce(msgs, <<>>))), 1)

\* if (isNonEmpty(contents)) { channel.send(first); if (restContents.length > 0)
\* { startThread; for (...) thread.send } }: the calls in their order, arg is the
\* index of the block in contents
PostStepsAlwaysThread(contents) ==
  IF contents = <<>> THEN <<>>
  ELSE <<Step("send", "channel", 1), Step("startThread", "message", 1)>>
         \o [i \in 1..(Len(contents) - 1) |-> Step("send", "thread", i + 1)]
PostSteps(contents) ==
  IF contents = <<>> THEN <<>>
  ELSE <<Step("send", "channel", 1)>>
         \o (IF Len(contents) - 1 > 0
             THEN <<Step("startThread", "message", 1)>>
                    \o [i \in 1..(Len(contents) - 1) |-> Step("send", "thread", i + 1)]
             ELSE <<>>)

\* the branch on db.all().some(...) and what is sent to the channel
ReportOutcome(rows, g, resolvable) ==
  IF \E i \in Indices(rows) : rows[i].reactionsCount > 0
  THEN LET contents == Contents(Messages(rows, g, resolvable))
           log == <<Step("all", "db", 0), Step("iterate", "db", 0)>>
                    \o PostSteps(contents)
       IN IF contents # <<>>
          THEN [kind |-> "report", blocks |-> contents, resolved |-> resolvable,
                log |-> log, dest |-> NoChannel, fetched |-> FetchCalls(rows, g)]
          ELSE [kind |-> "empty", blocks |-> <<>>, resolved |-> resolvable,
                log |-> log, dest |-> NoChannel, fetched |-> FetchCalls(rows, g)]
  ELSE [kind |-> "nowinners", blocks |-> <<>>, resolved |-> {},
        log |-> <<Step("all", "db", 0), Step("send", "channel", 0)>>,
        dest |-> NoChannel, fetched |-> {}]

\* for await (const count of db.deleteOutdated(guildId, 7)) { ... }: the rows that
\* are left, and the calls made: the count, and for a count > 0 the delete
\* statement followed by db.vacuum()
CleanedNever(rows, g, t) == rows
Cleaned(rows, g, t) ==
  IF CountOutdated(rows, g, RetentionDays, t) > 0
  THEN DeleteOutdatedRows(rows, g, RetentionDays, t)
  ELSE rows
CleanupSteps(rows, g, t) ==
  LET n == CountOutdated(rows, g, RetentionDays, t)
  IN <<Step("count", "db", n)>>
       \o (IF n > 0 THEN <<Step("delete", "db", n), Step("vacuum", "db", 0)>>
                    ELSE <<>>)

\* --------------------------------------------------------------- scheduler
GuildNames == {"inugoya"}
ChannelIds == {"c1"}
ChannelNames == {"award"}

Min(S) == CHOOSE x \in S : \A y \in S : x <= y

\* tick(guildId, guildName, channelName, weekday, hour, minute) is called and runs
\* up to its first await (the dynamic import)
CallTick(ch, g, c, args) ==
  [ch EXCEPT ![g][c] = [pc |-> "import", rem |-> 0, week |-> FALSE,
                        target |-> args.target, body |-> 0, since |-> 0,
                        guildName |-> args.guildName, channelName |-> args.channelName]]

TickArgs(g) ==
  [pc |-> "stop", target |-> times[g],
   guildName |-> config[g].guildName, channelName |-> config[g].channelName]

\* if (instances.has(guildId)) clearTimeout(instances.get(guildId));
ClearChainEveryGuild(ch, inst, g) ==
  [h \in Guilds |-> [c \in Chains |->
     IF inst[h].has /\ inst[h].timer = c THEN IdleChain ELSE ch[h][c]]]
ClearChain(ch, inst, g) ==
  IF inst[g].has /\ inst[g].timer # 0
  THEN [ch EXCEPT ![g][inst[g].timer] = IdleChain]
  ELSE ch
ClearHandle(inst, g) ==
  IF inst[g].has THEN [inst EXCEPT ![g].timer = 0] ELSE inst

\* const timeout = setTimeout(() => tick(...), delay); instances.set(guildId, timeout);
ScheduleUnregistered(g, c, delay) ==
  /\ chain' = [chain EXCEPT ![g][c].pc = "timer", ![g][c].rem = delay,
                            ![g][c].week = (delay = Long)]
  /\ UNCHANGED instances
Schedule(g, c, delay) ==
  /\ chain' = [chain EXCEPT ![g][c].pc = "timer", ![g][c].rem = delay,
                            ![g][c].week = (delay = Long)]
  /\ instances' = [instances EXCEPT ![g] = [has |-> TRUE, timer |-> c]]

Init ==
  /\ now = 0
  /\ ready = FALSE
  /\ config = [g \in Guilds |-> NoRec]
  /\ times = [g \in Guilds |-> NoTime]
  /\ records = <<>>
  /\ instances = [g \in Guilds |-> NoHandle]
  /\ chain = [g \in Guilds |-> [c \in Chains |-> IdleChain]]
  /\ startPc = [g \in Guilds |-> NoCall]
  /\ stopPc = [g \in Guilds |-> "idle"]
  /\ textChannel = [g \in Guilds |-> TRUE]
  /\ today = 0
  /\ posted = [g \in Guilds |-> NothingPosted]
  /\ initiated = [g \in Guilds |-> 0]
  /\ lastOp = NoOp
  /\ stopped = [g \in Guilds |-> FALSE]
  /\ reactions = NoReactions
  /\ handlers = NoHandlers
  /\ call = NoDbCall
  /\ directory = HomeDirectory
  /\ failed = [g \in Guilds |-> FALSE]

\* client.once(Events.ClientReady): startAward for every row of post_target; the
\* registry of a fresh process is empty, so each call goes straight to tick
ClientReadyConfigOnly ==
  /\ ~ready
  /\ ready' = TRUE
  /\ chain' = [g \in Guilds |->
                 IF config[g] # NoRec
                 THEN CallTick(chain, g, 1, TickArgs(g))[g]
                 ELSE chain[g]]
  /\ UNCHANGED <<now, config, times, records, instances, startPc, stopPc, textChannel,
                 today, posted, initiated, lastOp, stopped, reactions, handlers, call,
                 directory, failed>>
ClientReady ==
  /\ ~ready
  /\ ready' = TRUE
  /\ chain' = [g \in Guilds |->
                 IF config[g] # NoRec /\ times[g] # NoTime
                 THEN CallTick(chain, g, 1, TickArgs(g))[g]
                 ELSE chain[g]]
  /\ UNCHANGED <<now, config, times, records, instances, startPc, stopPc, textChannel,
                 today, posted, initiated, lastOp, stopped, reactions, handlers, call,
                 directory, failed>>

\* the process ends and is started again: the tables stay, everything else is new
Restart ==
  /\ ready
  /\ ready' = FALSE
  /\ instances' = [g \in Guilds |-> NoHandle]
  /\ chain' = [g \in Guilds |-> [c \in Chains |-> IdleChain]]
  /\ startPc' = [g \in Guilds |-> NoCall]
  /\ stopPc' = [g \in Guilds |-> "idle"]
  /\ stopped' = [g \in Guilds |-> FALSE]
  /\ handlers' = NoHandlers
  /\ call' = NoDbCall
  /\ failed' = [g \in Guilds |-> FALSE]
  /\ UNCHANGED <<now, config, times, records, textChannel, today, posted, initiated,
                 lastOp, reactions, directory>>

\* db.config.register / db.config.unregister / db.times.set / db.times.delete
Register(g, gn, ci, cn) ==
  /\ ready
  /\ config' = [config EXCEPT ![g] = [present |-> TRUE, guildName |-> gn,
                                    channelId |-> ci, channelName |-> cn]]
  /\ UNCHANGED <<now, ready, times, records, instances, chain, startPc, stopPc,
                 textChannel, today, posted, initiated, lastOp, stopped, reactions,
                 handlers, call, directory, failed>>

Unregister(g) ==
  /\ ready
  /\ config' = [config EXCEPT ![g] = NoRec]
  /\ UNCHANGED <<now, ready, times, records, instances, chain, startPc, stopPc,
                 textChannel, today, posted, initiated, lastOp, stopped, reactions,
                 handlers, call, directory, failed>>

SetTime(g, slot) ==
  /\ ready
  /\ times' = [times EXCEPT ![g] = slot]
  /\ UNCHANGED <<now, ready, config, records, instances, chain, startPc, stopPc,
                 textChannel, today, posted, initiated, lastOp, stopped, reactions,
                 handlers, call, directory, failed>>

DeleteTime(g) ==
  /\ ready
  /\ times' = [times EXCEPT ![g] = NoTime]
  /\ UNCHANGED <<now, ready, config, records, instances, chain, startPc, stopPc,
                 textChannel, today, posted, initiated, lastOp, stopped, reactions,
                 handlers, call, directory, failed>>

\* a startAward that looks only at the row of post_target
StartAwardConfigOnly(g) ==
  /\ ready
  /\ startPc[g] = NoCall
  /\ stopped' = [stopped EXCEPT ![g] = FALSE]
  /\ IF config[g] = NoRec
     THEN UNCHANGED <<chain, startPc>>
     ELSE IF instances[g].has
          THEN /\ startPc' = [startPc EXCEPT ![g] = TickArgs(g)]
               /\ UNCHANGED chain
          ELSE /\ FreeChains(chain, g) # {}
               /\ chain' = CallTick(chain, g, Min(FreeChains(chain, g)), TickArgs(g))
               /\ UNCHANGED startPc
  /\ failed' = [failed EXCEPT ![g] = FALSE]
  /\ UNCHANGED <<now, ready, config, times, records, instances, stopPc, textChannel, today,
                 posted, initiated, lastOp, reactions, handlers, call, directory>>

\* startAward up to its first await, or to its return when it does not await
StartAward(g) ==
  /\ ready
  /\ startPc[g] = NoCall
  /\ stopped' = [stopped EXCEPT ![g] = FALSE]
  /\ IF config[g] = NoRec \/ times[g] = NoTime
     THEN UNCHANGED <<chain, startPc>>
     ELSE IF instances[g].has
          THEN /\ startPc' = [startPc EXCEPT ![g] = TickArgs(g)]
               /\ UNCHANGED chain
          ELSE /\ FreeChains(chain, g) # {}
               /\ chain' = CallTick(chain, g, Min(FreeChains(chain, g)), TickArgs(g))
               /\ UNCHANGED startPc
  /\ failed' = [failed EXCEPT ![g] = FALSE]
  /\ UNCHANGED <<now, ready, config, times, records, instances, stopPc, textChannel, today,
                 posted, initiated, lastOp, reactions, handlers, call, directory>>

\* startAward after "await stopAward(guildId)": the rest of stopAward, then tick
\* (the model follows the new tick only while one of its MaxChains places is free)
StartResume(g) ==
  /\ startPc[g] # NoCall
  /\ LET ch1 == ClearChain(chain, instances, g)
     IN /\ FreeChains(ch1, g) # {}
        /\ chain' = CallTick(ch1, g, Min(FreeChains(ch1, g)), startPc[g])
  /\ instances' = ClearHandle(instances, g)
  /\ startPc' = [startPc EXCEPT ![g] = NoCall]
  /\ stopped' = [stopped EXCEPT ![g] = FALSE]
  /\ failed' = [failed EXCEPT ![g] = FALSE]
  /\ UNCHANGED <<now, ready, config, times, records, stopPc, textChannel, today, posted,
                 initiated, lastOp, reactions, handlers, call, directory>>

\* stopAward up to "await log('stopAward:', ...)", or to its return when the guild
\* has no row in post_target
StopAward(g) ==
  /\ ready
  /\ stopPc[g] = "idle"
  /\ IF config[g] = NoRec
     THEN /\ stopped' = [stopped EXCEPT ![g] = TRUE]
          /\ UNCHANGED stopPc
     ELSE /\ stopPc' = [stopPc EXCEPT ![g] = "log"]
          /\ UNCHANGED stopped
  /\ UNCHANGED <<now, ready, config, times, records, instances, chain, startPc,
                 textChannel, today, posted, initiated, lastOp, reactions, handlers, call,
                 directory, failed>>

\* stopAward after the log: clearTimeout of the registered handle
StopResume(g) ==
  /\ stopPc[g] = "log"
  /\ chain' = ClearChain(chain, instances, g)
  /\ instances' = ClearHandle(instances, g)
  /\ stopPc' = [stopPc EXCEPT ![g] = "idle"]
  /\ stopped' = [stopped EXCEPT ![g] = TRUE]
  /\ UNCHANGED <<now, ready, config, times, records, startPc, textChannel, today, posted,
                 initiated, lastOp, reactions, handlers, call, directory, failed>>

\* a timer set by tick expires and calls tick
TimerFire(g, c) ==
  /\ chain[g][c].pc = "timer"
  /\ chain[g][c].rem = 0
  /\ chain' = [chain EXCEPT ![g][c].pc = "import", ![g][c].week = FALSE,
                            ![g][c].body = 0, ![g][c].since = 0]
  /\ instances' = IF instances[g].timer = c
                  THEN [instances EXCEPT ![g].timer = 0] ELSE instances
  /\ UNCHANGED <<now, ready, config, times, records, startPc, stopPc, textChannel, today,
                 posted, initiated, lastOp, stopped, reactions, handlers, call, directory,
                 failed>>

\* tick after the import: compare now with the target; no match: poll again
TickEvalAlways(g, c) ==
  /\ chain[g][c].pc = "import"
  /\ chain' = [chain EXCEPT ![g][c].pc = "report"]
  /\ initiated' = [initiated EXCEPT ![g] = IF @ < 2 THEN @ + 1 ELSE @]
  /\ UNCHANGED <<now, ready, config, times, records, instances, startPc, stopPc,
                 textChannel, today, posted, lastOp, stopped, reactions, handlers, call,
                 directory, failed>>
TickEval(g, c) ==
  /\ chain[g][c].pc = "import"
  /\ IF now = chain[g][c].target
     THEN /\ chain' = [chain EXCEPT ![g][c].pc = "report"]
          /\ initiated' = [initiated EXCEPT ![g] = IF @ < 2 THEN @ + 1 ELSE @]
          /\ UNCHANGED instances
     ELSE /\ Schedule(g, c, Poll)
          /\ UNCHANGED initiated
  /\ UNCHANGED <<now, ready, config, times, records, startPc, stopPc, textChannel, today,
                 posted, lastOp, stopped, reactions, handlers, call, directory, failed>>

\* tick after the guild fetches: cleanup, tally, posts, then the next timer
TickReport(g, c) ==
  /\ chain[g][c].pc = "report"
  /\ LET found == FindChannel(directory, chain[g][c].guildName, chain[g][c].channelName)
     IN IF found # NoChannel /\ textChannel[g]
        THEN LET rows1 == Cleaned(records, g, today)
             IN /\ records' = rows1
                /\ \E resolvable \in SUBSET {KeyOf(rows1[i]) : i \in Indices(rows1)} :
                     posted' = [posted EXCEPT ![g] =
                                 [ReportOutcome(rows1, g, resolvable) EXCEPT
                                    !.log = CleanupSteps(records, g, today) \o @,
                                    !.dest = found]]
        ELSE /\ posted' = [posted EXCEPT ![g] = NoChannelOutcome]
             /\ UNCHANGED records
  /\ Schedule(g, c, Long)
  /\ UNCHANGED <<now, ready, config, times, startPc, stopPc, textChannel, today, initiated,
                 lastOp, stopped, reactions, handlers, call, directory, failed>>

\* the clock moves to the next slot; due timers, running imports and log writes
\* are shorter than a slot and come first
Advance ==
  /\ \A g \in Guilds :
       /\ startPc[g] = NoCall
       /\ stopPc[g] = "idle"
       /\ \A c \in Chains :
            /\ chain[g][c].pc # "import"
            /\ chain[g][c].pc = "timer" => chain[g][c].rem > 0
            /\ chain[g][c].pc = "report" => chain[g][c].body < MaxBody
  /\ now' = (now + 1) % Week
  /\ chain' = [g \in Guilds |-> [c \in Chains |->
                 IF chain[g][c].pc = "timer"
                 THEN [chain[g][c] EXCEPT !.rem = @ - 1,
                                          !.since = IF chain[g][c].week THEN @ + 1 ELSE @]
                 ELSE IF chain[g][c].pc = "report"
                 THEN [chain[g][c] EXCEPT !.body = @ + 1, !.since = @ + 1]
                 ELSE chain[g][c]]]
  /\ initiated' = [g \in Guilds |-> 0]
  /\ UNCHANGED <<ready, config, times, records, instances, startPc, stopPc, textChannel,
                 today, posted, lastOp, stopped, reactions, handlers, call, directory,
                 failed>>

Next ==
  \/ ClientReady
  \/ Restart
  \/ \E g \in Commanded, gn \in GuildNames, ci \in ChannelIds, cn \in ChannelNames :
       Register(g, gn, ci, cn)
  \/ \E g \in Commanded : Unregister(g)
  \/ \E g \in Commanded, slot \in TargetSlots : SetTime(g, slot)
  \/ \E g \in Commanded : DeleteTime(g)
  \/ \E g \in Commanded : StartAward(g)
  \/ \E g \in Commanded : StartResume(g)
  \/ \E g \in Commanded : StopAward(g)
  \/ \E g \in Commanded : StopResume(g)
  \/ \E g \in Guilds, c \in Chains : TimerFire(g, c)
  \/ \E g \in Guilds, c \in Chains : TickEval(g, c)
  \/ \E g \in Guilds, c \in Chains : TickReport(g, c)
  \/ Advance

Spec == Init /\ [][Next]_vars

\* two guilds: both are registered, the loop of g2 runs, g1 is started and stopped
PairInit ==
  /\ now = 0
  /\ ready = TRUE
  /\ config = [g \in Guilds |-> [present |-> TRUE, guildName |-> "inugoya",
                                 channelId |-> "c1", channelName |-> "award"]]
  /\ times = [g \in Guilds |-> 1]
  /\ records = <<>>
  /\ instances = [g \in Guilds |-> NoHandle]
  /\ chain = [g \in Guilds |-> [c \in Chains |->
                IF g = "g2" /\ c = 1
                THEN [IdleChain EXCEPT !.pc = "import", !.target = 1,
                                       !.guildName = "inugoya", !.channelName = "award"]
                ELSE IdleChain]]
  /\ startPc = [g \in Guilds |-> NoCall]
  /\ stopPc = [g \in Guilds |-> "idle"]
  /\ textChannel = [g \in Guilds |-> TRUE]
  /\ today = 0
  /\ posted = [g \in Guilds |-> NothingPosted]
  /\ initiated = [g \in Guilds |-> 0]
  /\ lastOp = NoOp
  /\ stopped = [g \in Guilds |-> FALSE]
  /\ reactions = NoReactions
  /\ handlers = NoHandlers
  /\ call = NoDbCall
  /\ directory = HomeDirectory
  /\ failed = [g \in Guilds |-> FALSE]

PairNext ==
  \/ \E g \in Commanded : StartAward(g)
  \/ \E g \in Commanded : StartResume(g)
  \/ \E g \in Commanded : StopAward(g)
  \/ \E g \in Commanded : StopResume(g)
  \/ \E g \in Guilds, c \in Chains : TimerFire(g, c)
  \/ \E g \in Guilds, c \in Chains : TickEval(g, c)
  \/ \E g \in Guilds, c \in Chains : TickReport(g, c)
  \/ Advance

PairSpec == PairInit /\ [][PairNext]_vars


\* ---------------------------------------------------- one report, any table
\* a tick of g1 has been called in the target slot; reacted_messages holds any rows
\* of g1 and possibly one row of g2, the m1 rows older than the retention when old
ReportKeys == {<<"g1", "c1", "m1">>, <<"g1", "c1", "m2">>, <<"g1", "c1", "m3">>,
               <<"g1", "c1", "m4">>, <<"g2", "c1", "m1">>}
KeyOrder == <<<<"g1", "c1", "m1">>, <<"g2", "c1", "m1">>, <<"g1", "c1", "m2">>,
              <<"g1", "c1", "m3">>, <<"g1", "c1", "m4">>>>

RowsOf(f, old) ==
  LET present == SelectSeq(KeyOrder, LAMBDA k : f[k] >= 0)
  IN [i \in 1..Len(present) |->
        [guildId |-> present[i][1], channelId |-> present[i][2],
         messageId |-> present[i][3], content |-> "a",
         reactionsCount |-> f[present[i]],
         timestamp |-> IF old /\ present[i][3] = "m1" THEN 0 ELSE 3,
         createdAt |-> 3, updatedAt |-> 3]]

ReportInit ==
  /\ now = 1
  /\ ready = TRUE
  /\ config = [g \in Guilds |-> [present |-> TRUE, guildName |-> "inugoya",
                                 channelId |-> "c1", channelName |-> "award"]]
  /\ times = [g \in Guilds |-> 1]
  /\ \E f \in [ReportKeys -> (-1)..MaxCount] : \E old \in BOOLEAN :
       /\ f[<<"g2", "c1", "m1">>] \in {-1, 1}
       /\ records = RowsOf(f, old)
  /\ instances = [g \in Guilds |-> NoHandle]
  /\ chain = [g \in Guilds |-> [c \in Chains |->
                IF g = "g1" /\ c = 1
                THEN [IdleChain EXCEPT !.pc = "import", !.target = 1,
                                       !.guildName = "inugoya", !.channelName = "award"]
                ELSE IdleChain]]
  /\ startPc = [g \in Guilds |-> NoCall]
  /\ stopPc = [g \in Guilds |-> "idle"]
  /\ \E b \in BOOLEAN : textChannel = [g \in Guilds |-> IF g = "g1" THEN b ELSE TRUE]
  /\ today = 8
  /\ posted = [g \in Guilds |-> NothingPosted]
  /\ initiated = [g \in Guilds |-> 0]
  /\ lastOp = NoOp
  /\ stopped = [g \in Guilds |-> FALSE]
  /\ reactions = NoReactions
  /\ handlers = NoHandlers
  /\ call = NoDbCall
  /\ directory = HomeDirectory
  /\ failed = [g \in Guilds |-> FALSE]

ReportNext ==
  \/ \E g \in Guilds, c \in Chains : TickEval(g, c)
  \/ \E g \in Guilds, c \in Chains : TickReport(g, c)

ReportSpec == ReportInit /\ [][ReportNext]_vars

\* ------------------------------------------------- writes of reacted_messages
StoreMessages == {"m1"}
Contents2 == {"a", "b"}

\* db.set(message, reactionsCount): the statement succeeds
DbSet(m, n) ==
  /\ records' = SetRow(records, m, n, today)
  /\ lastOp' = [kind |-> "set", key |-> <<m.guildId, m.channelId, m.id>>, count |-> n,
                content |-> m.content]
  /\ UNCHANGED <<now, ready, config, times, instances, chain, startPc, stopPc, textChannel,
                 today, posted, initiated, stopped, reactions, handlers, call, directory,
                 failed>>

\* db.delete(guildId, channelId, messageId): the statement succeeds
DbDelete(g, ch, id) ==
  /\ records' = DeleteRow(records, g, ch, id)
  /\ lastOp' = [kind |-> "delete", key |-> <<g, ch, id>>, count |-> 0, content |-> ""]
  /\ UNCHANGED <<now, ready, config, times, instances, chain, startPc, stopPc, textChannel,
                 today, posted, initiated, stopped, reactions, handlers, call, directory,
                 failed>>

\* datetime('now') moves on
DayPasses ==
  /\ today < MaxDay
  /\ today' = today + 1
  /\ UNCHANGED <<now, ready, config, times, records, instances, chain, startPc, stopPc,
                 textChannel, posted, initiated, lastOp, stopped, reactions, handlers,
                 call, directory, failed>>

StoreNext ==
  \/ \E g \in Guilds, id \in StoreMessages, text \in Contents2, ts \in 0..MaxDay,
        n \in 1..MaxSetCount :
       DbSet([guildId |-> g, channelId |-> "c1", id |-> id, content |-> text,
              createdTimestamp |-> ts], n)
  \/ \E g \in Guilds, id \in StoreMessages : DbDelete(g, "c1", id)
  \/ DayPasses

StoreSpec == Init /\ [][StoreNext]_vars

\* --------------------------------------------------------- reaction events
\* the message object the handlers pass to db.set
MessageOf(k) ==
  [guildId |-> k[1], channelId |-> k[2], id |-> k[3], content |-> "a",
   createdTimestamp |-> 0]
FreeHandlers == {h \in HandlerIds : handlers[h].pc = "idle"}

\* a user adds a reaction: Discord counts it and the gateway event starts the
\* MessageReactionAdd handler, which runs to "await reaction.message.fetch()"
ReactionAdd(k) ==
  /\ ready
  /\ reactions[k] < MaxReactions
  /\ FreeHandlers # {}
  /\ reactions' = [reactions EXCEPT ![k] = @ + 1]
  /\ handlers' = [handlers EXCEPT ![Min(FreeHandlers)] =
                    [pc |-> "fetch", kind |-> "add", key |-> k, count |-> 0]]
  /\ UNCHANGED <<now, ready, config, times, records, instances, chain, startPc, stopPc,
                 textChannel, today, posted, initiated, lastOp, stopped, call, directory,
                 failed>>

\* a user takes a reaction back: the MessageReactionRemove handler starts
ReactionRemove(k) ==
  /\ ready
  /\ reactions[k] > 0
  /\ FreeHandlers # {}
  /\ reactions' = [reactions EXCEPT ![k] = @ - 1]
  /\ handlers' = [handlers EXCEPT ![Min(FreeHandlers)] =
                    [pc |-> "fetch", kind |-> "remove", key |-> k, count |-> 0]]
  /\ UNCHANGED <<now, ready, config, times, records, instances, chain, startPc, stopPc,
                 textChannel, today, posted, initiated, lastOp, stopped, call, directory,
                 failed>>

\* Discord answers the fetch of handler h with the message as it is now;
\* reactions.cache.reduce((acc, reaction) => acc + reaction.count, 0)
MessageFetched(h) ==
  /\ handlers[h].pc = "fetch"
  /\ handlers' = [handlers EXCEPT ![h].pc = "fetched",
                                  ![h].count = reactions[handlers[h].key]]
  /\ UNCHANGED <<now, ready, config, times, records, instances, chain, startPc, stopPc,
                 textChannel, today, posted, initiated, lastOp, stopped, reactions, call,
                 directory, failed>>

\* the MessageReactionAdd handler after the fetch
HandlerAdd(h) ==
  /\ handlers[h].pc = "fetched"
  /\ handlers[h].kind = "add"
  /\ LET k == handlers[h].key
         n == handlers[h].count
     IN IF config[k[1]] = NoRec
        THEN UNCHANGED <<records, lastOp>>
        ELSE /\ records' = SetRow(records, MessageOf(k), n, today)
             /\ lastOp' = [kind |-> "set", key |-> k, count |-> n, content |-> "a"]
  /\ handlers' = [handlers EXCEPT ![h] = IdleHandler]
  /\ UNCHANGED <<now, ready, config, times, instances, chain, startPc, stopPc, textChannel,
                 today, posted, initiated, stopped, reactions, call, directory, failed>>

\* the MessageReactionRemove handler after the fetch
HandlerRemove(h) ==
  /\ handlers[h].pc = "fetched"
  /\ handlers[h].kind = "remove"
  /\ LET k == handlers[h].key
         n == handlers[h].count
     IN IF n > 0
        THEN /\ records' = SetRow(records, MessageOf(k), n, today)
             /\ lastOp' = [kind |-> "set", key |-> k, count |-> n, content |-> "a"]
        ELSE /\ records' = DeleteRow(records, k[1], k[2], k[3])
             /\ lastOp' = [kind |-> "delete", key |-> k, count |-> 0, content |-> ""]
  /\ handlers' = [handlers EXCEPT ![h] = IdleHandler]
  /\ UNCHANGED <<now, ready, config, times, instances, chain, startPc, stopPc, textChannel,
                 today, posted, initiated, stopped, reactions, call, directory, failed>>

\* the bot runs and g1 is registered; users react to a message of g1
ReactionInit ==
  /\ now = 0
  /\ ready = TRUE
  /\ config = [g \in Guilds |->
                 IF g \in Commanded
                 THEN [present |-> TRUE, guildName |-> "inugoya",
                       channelId |-> "c1", channelName |-> "award"]
                 ELSE NoRec]
  /\ times = [g \in Guilds |-> NoTime]
  /\ records = <<>>
  /\ instances = [g \in Guilds |-> NoHandle]
  /\ chain = [g \in Guilds |-> [c \in Chains |-> IdleChain]]
  /\ startPc = [g \in Guilds |-> NoCall]
  /\ stopPc = [g \in Guilds |-> "idle"]
  /\ textChannel = [g \in Guilds |-> TRUE]
  /\ today = 0
  /\ posted = [g \in Guilds |-> NothingPosted]
  /\ initiated = [g \in Guilds |-> 0]
  /\ lastOp = NoOp
  /\ stopped = [g \in Guilds |-> FALSE]
  /\ reactions = NoReactions
  /\ handlers = NoHandlers
  /\ call = NoDbCall
  /\ directory = HomeDirectory
  /\ failed = [g \in Guilds |-> FALSE]

ReactionNext ==
  \/ \E k \in ReactKeys : ReactionAdd(k)
  \/ \E k \in ReactKeys : ReactionRemove(k)
  \/ \E h \in HandlerIds : MessageFetched(h)
  \/ \E h \in HandlerIds : HandlerAdd(h)
  \/ \E h \in HandlerIds : HandlerRemove(h)
  \/ \E g \in Commanded, gn \in GuildNames, ci \in ChannelIds, cn \in ChannelNames :
       Register(g, gn, ci, cn)
  \/ \E g \in Commanded : Unregister(g)

ReactionSpec == ReactionInit /\ [][ReactionNext]_vars

\* ----------------------------------------------------- calls of db methods
\* the methods of db that write, and the outcomes of one statement: it runs, it
\* throws the TypeError '... database connection is busy ...', or it throws another error
DbOps == {"set", "delete", "transaction", "deleteOutdated", "vacuum",
          "register", "unregister", "timesSet", "timesDelete"}
Outcomes == {"ok", "busy", "fail"}

\* rows the table may hold when a call is followed: (guild, message, timestamp)
StoredRows ==
  LET row(g, id, ts) ==
        [guildId |-> g, channelId |-> "c1", messageId |-> id, content |-> "a",
         reactionsCount |-> 1, timestamp |-> ts, createdAt |-> ts, updatedAt |-> ts]
  IN <<row("g1", "m1", -10), row("g1", "m2", -8), row("g1", "m3", -7),
       row("g1", "m4", -5), row("g2", "m1", -10)>>

\* what the statement of op changes when it runs
ApplyOp(op, g) ==
  CASE op = "set" ->
         /\ records' = SetRow(records, MessageOf(<<g, "c1", "m1">>), 1, today)
         /\ UNCHANGED <<config, times>>
    [] op = "delete" ->
         /\ records' = DeleteRow(records, g, "c1", "m1")
         /\ UNCHANGED <<config, times>>
    [] op = "transaction" ->
         /\ records' = SetRow(SetRow(records, MessageOf(<<g, "c1", "m1">>), 2, today),
                              MessageOf(<<g, "c1", "m2">>), 2, today)
         /\ UNCHANGED <<config, times>>
    [] op = "register" ->
         /\ config' = [config EXCEPT ![g] = [present |-> TRUE, guildName |-> "inugoya",
                                           channelId |-> "c1", channelName |-> "award"]]
         /\ UNCHANGED <<records, times>>
    [] op = "unregister" ->
         /\ config' = [config EXCEPT ![g] = NoRec]
         /\ UNCHANGED <<records, times>>
    [] op = "timesSet" ->
         /\ times' = [times EXCEPT ![g] = 1]
         /\ UNCHANGED <<records, config>>
    [] op = "timesDelete" ->
         /\ times' = [times EXCEPT ![g] = NoTime]
         /\ UNCHANGED <<records, config>>
    [] OTHER -> UNCHANGED <<records, config, times>>

\* catch (e): the busy TypeError is answered by "await setTimeout()" and a new call of
\* the method; vacuum has no try / catch
OnBusy(c) ==
  IF c.op = "vacuum"
  THEN [c EXCEPT !.pc = "error", !.error = "busy", !.last = "busy"]
  ELSE [c EXCEPT !.pc = "sleep", !.attempts = @ + 1, !.last = "busy"]
\* throw e
OnFailureRetry(c) == [c EXCEPT !.pc = "sleep", !.last = "fail"]
OnFailure(c) == [c EXCEPT !.pc = "error", !.error = "fail", !.last = "fail"]

\* a caller calls db.<op> for guild g
DbCall(op, g) ==
  /\ call.pc \in {"none", "done", "error"}
  /\ call' = [NoDbCall EXCEPT !.op = op, !.pc = "run", !.guildId = g,
                              !.saved = <<records, config, times>>]
  /\ UNCHANGED <<now, ready, config, times, records, instances, chain, startPc, stopPc,
                 textChannel, today, posted, initiated, lastOp, stopped, reactions,
                 handlers, directory, failed>>

\* the statement of the method runs: stmt.run(...), fn(values), db.pragma(...), or
\* cntStmt.get(...) followed by "yield count"
RunStatement(o) ==
  /\ call.pc = "run"
  /\ o = "busy" => call.attempts < MaxAttempts
  /\ IF o = "ok"
     THEN IF call.op = "deleteOutdated"
          THEN /\ call' = [call EXCEPT
                            !.pc = "counted", !.last = "ok", !.at = today,
                            !.yields = Append(@, CountOutdated(records, call.guildId,
                                                               RetentionDays, today))]
               /\ UNCHANGED <<records, config, times>>
          ELSE /\ call' = [call EXCEPT !.pc = "done", !.last = "ok", !.applied = @ + 1]
               /\ ApplyOp(call.op, call.guildId)
     ELSE /\ call' = IF o = "busy" THEN OnBusy(call) ELSE OnFailure(call)
          /\ UNCHANGED <<records, config, times>>
  /\ UNCHANGED <<now, ready, instances, chain, startPc, stopPc, textChannel, today, posted,
                 initiated, lastOp, stopped, reactions, handlers, directory, failed>>

\* the consumer asks deleteOutdated for the next value: "if (count > 0)
\* { delStmt.run(...); yield; }", then the generator returns
ResumeDeleteOutdated(o) ==
  /\ call.pc = "counted"
  /\ o = "busy" => call.attempts < MaxAttempts
  /\ IF call.yields[Len(call.yields)] > 0
     THEN IF o = "ok"
          THEN /\ records' = DeleteOutdatedRows(records, call.guildId, RetentionDays,
                                                today)
               /\ call' = [call EXCEPT
                            !.pc = "done", !.last = "ok", !.applied = @ + 1,
                            !.yields = Append(@, Completion),
                            !.removed = Len(records) - Len(records')]
          ELSE /\ call' = IF o = "busy" THEN OnBusy(call) ELSE OnFailure(call)
               /\ UNCHANGED records
     ELSE /\ o = "ok"
          /\ call' = [call EXCEPT !.pc = "done"]
          /\ UNCHANGED records
  /\ UNCHANGED <<now, ready, config, times, instances, chain, startPc, stopPc, textChannel,
                 today, posted, initiated, lastOp, stopped, reactions, handlers, directory,
                 failed>>

\* "await setTimeout()" is over: return this.<op>(...), the method runs again
RetryCall ==
  /\ call.pc = "sleep"
  /\ call' = [call EXCEPT !.pc = "run"]
  /\ UNCHANGED <<now, ready, config, times, records, instances, chain, startPc, stopPc,
                 textChannel, today, posted, initiated, lastOp, stopped, reactions,
                 handlers, directory, failed>>

\* the calls of db methods for g1, one after the other, on any table
CallInit ==
  /\ now = 0
  /\ ready = TRUE
  /\ config = [g \in Guilds |-> NoRec]
  /\ times = [g \in Guilds |-> NoTime]
  /\ \E K \in SUBSET {<<"g1", "c1", "m1">>, <<"g1", "c1", "m2">>, <<"g1", "c1", "m3">>} :
       records = SelectSeq(StoredRows,
                           LAMBDA r : KeyOf(r) \in K \/ r.timestamp = -5
                                        \/ r.guildId # "g1")
  /\ instances = [g \in Guilds |-> NoHandle]
  /\ chain = [g \in Guilds |-> [c \in Chains |-> IdleChain]]
  /\ startPc = [g \in Guilds |-> NoCall]
  /\ stopPc = [g \in Guilds |-> "idle"]
  /\ textChannel = [g \in Guilds |-> TRUE]
  /\ today = 0
  /\ posted = [g \in Guilds |-> NothingPosted]
  /\ initiated = [g \in Guilds |-> 0]
  /\ lastOp = NoOp
  /\ stopped = [g \in Guilds |-> FALSE]
  /\ reactions = NoReactions
  /\ handlers = NoHandlers
  /\ call = NoDbCall
  /\ directory = HomeDirectory
  /\ failed = [g \in Guilds |-> FALSE]

CallNext ==
  \/ \E op \in DbOps, g \in Commanded : DbCall(op, g)
  \/ \E o \in Outcomes : RunStatement(o)
  \/ \E o \in Outcomes : ResumeDeleteOutdated(o)
  \/ RetryCall
  \/ DayPasses

CallSpec == CallInit /\ [][CallNext]_vars

\* ------------------------------------------------------- startup recovery
\* a process starts on any content of post_target and times; no command follows
RecoveryInit ==
  /\ now \in Slots
  /\ ready = FALSE
  /\ config \in [Guilds -> {NoRec, [present |-> TRUE, guildName |-> "inugoya",
                                    channelId |-> "c1", channelName |-> "award"]}]
  /\ times \in [Guilds -> {NoTime} \cup TargetSlots]
  /\ records = <<>>
  /\ instances = [g \in Guilds |-> NoHandle]
  /\ chain = [g \in Guilds |-> [c \in Chains |-> IdleChain]]
  /\ startPc = [g \in Guilds |-> NoCall]
  /\ stopPc = [g \in Guilds |-> "idle"]
  /\ textChannel = [g \in Guilds |-> TRUE]
  /\ today = 0
  /\ posted = [g \in Guilds |-> NothingPosted]
  /\ initiated = [g \in Guilds |-> 0]
  /\ lastOp = NoOp
  /\ stopped = [g \in Guilds |-> FALSE]
  /\ reactions = NoReactions
  /\ handlers = NoHandlers
  /\ call = NoDbCall
  /\ directory = HomeDirectory
  /\ failed = [g \in Guilds |-> FALSE]

RecoveryNext ==
  \/ ClientReady
  \/ \E g \in Guilds, c \in Chains : TimerFire(g, c)
  \/ \E g \in Guilds, c \in Chains : TickEval(g, c)
  \/ \E g \in Guilds, c \in Chains : TickReport(g, c)
  \/ Advance

RecoverySpec == RecoveryInit /\ [][RecoveryNext]_vars

\* ------------------------------------------- guilds and channels by name
\* what client.guilds.fetch() and guild.channels.cache may hold: guilds in either
\* order, each under the registered name or another one, with no channel, the
\* registered channel, a second channel of the same name before it, or the
\* registered channel under a new name
DirectoryGuildNames == {"inugoya", "nekogoya"}
DirectoryChannels ==
  {<<>>,
   <<ChannelEntry("c1", "award")>>,
   <<ChannelEntry("c2", "award"), ChannelEntry("c1", "award")>>,
   <<ChannelEntry("c1", "prize")>>}
DirectoryEntries ==
  {GuildEntry(g, n, cs) : g \in Guilds, n \in DirectoryGuildNames, cs \in DirectoryChannels}
Directories ==
  {<<>>} \cup {<<e>> : e \in DirectoryEntries}
         \cup {<<p[1], p[2]>> :
                 p \in {q \in DirectoryEntries \X DirectoryEntries :
                          q[1].guildId # q[2].guildId}}

\* both guilds are registered as "inugoya" with channel c1 "award"; a tick of one
\* guild is at its dynamic import in the target minute
DirectoryInit ==
  /\ now = 1
  /\ ready = TRUE
  /\ config = [g \in Guilds |-> [present |-> TRUE, guildName |-> "inugoya",
                                 channelId |-> "c1", channelName |-> "award"]]
  /\ times = [g \in Guilds |-> 1]
  /\ \E f \in [ReportKeys -> {-1, 1}] : \E old \in BOOLEAN :
       /\ f[<<"g1", "c1", "m3">>] = -1 /\ f[<<"g1", "c1", "m4">>] = -1
       /\ records = RowsOf(f, old)
  /\ instances = [g \in Guilds |-> NoHandle]
  /\ \E tg \in Guilds :
       chain = [g \in Guilds |-> [c \in Chains |->
                  IF g = tg /\ c = 1
                  THEN [IdleChain EXCEPT !.pc = "import", !.target = 1,
                                         !.guildName = "inugoya", !.channelName = "award"]
                  ELSE IdleChain]]
  /\ startPc = [g \in Guilds |-> NoCall]
  /\ stopPc = [g \in Guilds |-> "idle"]
  /\ textChannel \in [Guilds -> BOOLEAN]
  /\ today = 8
  /\ posted = [g \in Guilds |-> NothingPosted]
  /\ initiated = [g \in Guilds |-> 0]
  /\ lastOp = NoOp
  /\ stopped = [g \in Guilds |-> FALSE]
  /\ reactions = NoReactions
  /\ handlers = NoHandlers
  /\ call = NoDbCall
  /\ directory \in Directories
  /\ failed = [g \in Guilds |-> FALSE]

DirectorySpec == DirectoryInit /\ [][ReportNext]_vars

\* ----------------------------------------------------------- errors in tick
\* an await of tick rejects or a call throws: the dynamic import, the guild fetches,
\* a db call, messageToEmbeds, a send; tick returns a rejected promise and sets no timer
TickFail(g, c) ==
  /\ chain[g][c].pc \in {"import", "report"}
  /\ chain' = [chain EXCEPT ![g][c] = IdleChain]
  /\ failed' = [failed EXCEPT ![g] = TRUE]
  /\ UNCHANGED <<now, ready, config, times, records, instances, startPc, stopPc,
                 textChannel, today, posted, initiated, lastOp, stopped, reactions,
                 handlers, call, directory>>

\* two registered guilds as in PairInit; any tick may throw
FailNext ==
  \/ PairNext
  \/ \E g \in Guilds, c \in Chains : TickFail(g, c)

FailSpec == PairInit /\ [][FailNext]_vars

\* ------------------------------------------------------------- properties
\* the clock leaves the current slot in this step
SlotEnds == now' # now
\* chain c of g is alive while the clock shows the chain's target
Covers(g, c) == chain[g][c].pc # "idle" /\ chain[g][c].target = now
\* the 6.9 day timer of chain c expires in this step
WeekTimerFires(g, c) ==
  /\ chain[g][c].pc = "timer" /\ chain[g][c].week
  /\ chain'[g][c].pc = "import"
\* a timer of g expires in this step, that is, a tick of g starts
TickStarts(g) ==
  \E c \in Chains : chain[g][c].pc = "timer" /\ chain'[g][c].pc = "import"
\* stopAward(g) returns in this step
StopReturns(g) == StopResume(g) \/ (StopAward(g) /\ ~config[g].present)

\* C1: every guild has at most one tick that is pending as a timer or in flight
AtMostOneActiveLoop == \A g \in Guilds : Cardinality(Active(g)) <= 1

\* C2: every occurrence of the target slot sees exactly one report of the guild:
\* never a second one, and one at the latest when the slot ends with a live loop
ExactlyOneReportPerOccurrence ==
  [][\A g \in Guilds :
       /\ initiated'[g] <= 1
       /\ (SlotEnds /\ (\E c \in Chains : Covers(g, c))) => initiated[g] = 1]_vars

StopCancelsPendingTimer ==
  [][\A g \in Guilds :
       (StopReturns(g) /\ HandlePending(g)) =>
          /\ ~HandlePending(g)'
          /\ chain'[g][instances[g].timer].pc = "idle"]_vars

\* C5: after stopAward(g) has returned and until startAward(g) runs, no tick of g starts
StoppedIsTerminal ==
  [][\A g \in Guilds : (stopped[g] /\ stopped'[g]) => ~TickStarts(g)]_vars

\* an action of the scheduler for guild a: startAward, stopAward, a timer, a tick
ActsFor(a) ==
  \/ StartAward(a) \/ StartResume(a) \/ StopAward(a) \/ StopResume(a)
  \/ \E c \in Chains : TimerFire(a, c) \/ TickEval(a, c) \/ TickReport(a, c)

\* C6: startAward, stopAward and the ticks of a guild leave the registry entry and
\* the timers of every other guild as they are, and the other guild's live loop
\* reports in its own target slot
TenantLoopsIndependent ==
  [][\A a \in Guilds : \A b \in Guilds \ {a} :
       /\ ActsFor(a) => (instances'[b] = instances[b] /\ chain'[b] = chain[b])
       /\ \A c \in Chains :
            (SlotEnds /\ Covers(b, c) /\ chain[b][c].body <= Slack)
              => initiated[b] >= 1]_vars

\* stopAward of one guild has cancelled its timer while the other guild's timer is
\* pending in the registry
StoppedBesidePending ==
  \E a \in Guilds : \E b \in Guilds \ {a} :
    /\ stopped[a] /\ instances[a].has /\ ~HandlePending(a)
    /\ Active(a) = {}
    /\ HandlePending(b)

\* C7 as stated: a report body of g that found its channel and no row of g with
\* reactionsCount > 0 sends the "no winners" notice
NoWinnersNoticePerTenant ==
  [][\A g \in Guilds :
       ( /\ \E c \in Chains : chain[g][c].pc = "report" /\ chain'[g][c].pc = "timer"
         /\ posted'[g].kind # "nochannel"
         /\ \A i \in Indices(records) :
              records[i].guildId = g => records[i].reactionsCount <= 0 )
       => posted'[g].kind = "nowinners"]_vars

RECURSIVE ItemsBefore(_, _)
ItemsBefore(blocks, i) ==
  IF i <= 1 THEN 0 ELSE Len(blocks[i - 1].items) + ItemsBefore(blocks, i - 1)

\* C8: the first block of a report has rank 1 and every later block has rank
\* 1 + the number of items of all blocks before it
RankIsCumulative ==
  \A g \in Guilds :
    posted[g].kind = "report" =>
      \A i \in 1..Len(posted[g].blocks) :
        posted[g].blocks[i].rank = 1 + ItemsBefore(posted[g].blocks, i)

\* groups of 2, 1 and 1 items were ranked 1, 3 and 4
RankSkipsAfterTie ==
  \E g \in Guilds :
    /\ posted[g].kind = "report"
    /\ Len(posted[g].blocks) = 3
    /\ Len(posted[g].blocks[1].items) = 2
    /\ posted[g].blocks[1].rank = 1
    /\ posted[g].blocks[2].rank = 3
    /\ posted[g].blocks[3].rank = 4

\* the rows of g that the last report body of g resolved
ResolvedRows(g) ==
  {i \in Indices(records) :
     records[i].guildId = g /\ KeyOf(records[i]) \in posted[g].resolved}
ResolvedCounts(g) == {records[i].reactionsCount : i \in ResolvedRows(g)}

\* C9: the blocks of a report are the min(3, distinct counts) largest counts of the
\* guild's resolved rows in strictly descending order, each block holds exactly the
\* resolved rows with its count
TopThreeGroups ==
  \A g \in Guilds :
    posted[g].kind \in {"report", "empty"} =>
      LET b == posted[g].blocks
          D == ResolvedCounts(g)
          top == {d \in D : Cardinality({e \in D : e > d}) < TopGroups}
      IN /\ Len(b) = (IF Cardinality(D) < 3 THEN Cardinality(D) ELSE 3)
         /\ \A i \in 1..Len(b) : \A j \in 1..Len(b) : i < j => b[i].count > b[j].count
         /\ {b[i].count : i \in 1..Len(b)} = top
         /\ \A i \in 1..Len(b) :
              /\ Range(b[i].items) =
                   {<<records[k].channelId, records[k].messageId>> :
                      k \in {k \in ResolvedRows(g) :
                               records[k].reactionsCount = b[i].count}}
              /\ Cardinality(Range(b[i].items)) = Len(b[i].items)

\* a report of three blocks was sent while a resolved row of the guild had a fourth,
\* lower count
FourthGroupDropped ==
  \E g \in Guilds :
    /\ posted[g].kind = "report"
    /\ Len(posted[g].blocks) = 3
    /\ \E i \in ResolvedRows(g) :
         records[i].reactionsCount < posted[g].blocks[3].count

UniqueKeys(rows) ==
  \A i \in Indices(rows) : \A j \in Indices(rows) :
    KeyOf(rows[i]) = KeyOf(rows[j]) => i = j

\* C10: after every db.set and db.delete the table has at most one row per key; a
\* db.set on a key that has a row leaves one row of that key with the new count and
\* content and with the created_at and timestamp the row had
UpsertKeepsOneRow ==
  [][/\ UniqueKeys(records')
     /\ \A i \in Indices(records) :
          (lastOp'.kind = "set" /\ lastOp' # lastOp /\ KeyOf(records[i]) = lastOp'.key) =>
            \E j \in Indices(records') :
              /\ KeyOf(records'[j]) = lastOp'.key
              /\ records'[j].reactionsCount = lastOp'.count
              /\ records'[j].content = lastOp'.content
              /\ records'[j].createdAt = records[i].createdAt
              /\ records'[j].timestamp = records[i].timestamp]_vars

\* the row of a key was written a second time, on a later day, with another count
\* and for a message object carrying another timestamp
RowUpdatedLater ==
  \E i \in Indices(records) :
    /\ lastOp.kind = "set"
    /\ KeyOf(records[i]) = lastOp.key
    /\ records[i].updatedAt > records[i].createdAt
    /\ records[i].reactionsCount = 2
    /\ Len(records) = 2

\* C11: no row of reacted_messages has reactions_count 0 or less, whatever the
\* order of the reaction events, the fetches and the writes of their handlers
NoZeroCountStored ==
  \A i \in Indices(records) : records[i].reactionsCount > 0

\* the delete statement of deleteOutdated runs in this step
DeleteStatementRuns ==
  /\ call.op = "deleteOutdated" /\ call.pc = "counted"
  /\ call'.pc = "done"

\* C12: deleteOutdated yields the number of the guild's rows older than the window,
\* then removes exactly that many rows, namely the guild's rows older than the window
\* at the count, and leaves all other rows; with count 0 it removes nothing and
\* yields nothing more
DeleteOutdatedRemovesCounted ==
  [][/\ (call.op = "deleteOutdated" /\ call.pc = "run" /\ call'.pc = "counted") =>
          call'.yields[Len(call'.yields)] =
            CountOutdated(records, call.guildId, RetentionDays, today)
     /\ DeleteStatementRuns =>
          LET n == call.yields[Len(call.yields)]
          IN /\ Len(records) - Len(records') = n
             /\ \A i \in Indices(records) :
                  ~Outdated(records[i], call.guildId, RetentionDays, call.at)
                    => records[i] \in Range(records')
             /\ n = 0 => (records' = records /\ call'.yields = call.yields)
             /\ n > 0 => call'.yields = Append(call.yields, Completion)]_vars

\* C13: no call of a writing db method ends with the busy error at its caller, and
\* its statement takes effect at most once
BusyNeverReachesCaller ==
  /\ ~(call.pc = "error" /\ call.error = "busy")
  /\ call.applied <= 1

\* a statement of the followed call throws an error other than the busy one
StatementFails ==
  /\ call.pc \in {"run", "counted"}
  /\ call' # call
  /\ call'.last = "fail"

\* C14: a statement that fails with another error than busy ends the call with that
\* error at the caller, without a further attempt, and the three tables are as they
\* were when the method was called
OtherFailurePropagates ==
  [][/\ StatementFails =>
          /\ call'.pc = "error" /\ call'.error = "fail"
          /\ call'.attempts = call.attempts
          /\ call'.applied = 0
          /\ <<records', config', times'>> = call.saved
     /\ (call.pc = "error" /\ call' # call) =>
          (call'.pc = "run" /\ call'.attempts = 0 /\ call'.last = "")]_vars

\* db.config.register was retried once after a busy failure and then threw another
\* error, with rows in reacted_messages
FailedAfterBusyRetry ==
  /\ call.op = "register"
  /\ call.pc = "error" /\ call.error = "fail"
  /\ call.attempts = 1
  /\ Len(records) = 3

\* both post_target and times have a row of g
Scheduled(g) == config[g].present /\ times[g] # NoTime

\* C15: ClientReady calls tick once for every guild that has a row in both tables
\* and for no other guild; from then on such a guild has exactly one tick, pending
\* as the registered timer or in flight, and a guild without a row in times has none
StartupResumesEveryLoop ==
  /\ ~ready => \A g \in Guilds : Active(g) = {}
  /\ ready => \A g \in Guilds :
       /\ Cardinality(Active(g)) = (IF Scheduled(g) THEN 1 ELSE 0)
       /\ \A c \in Chains :
            chain[g][c].pc = "timer" => instances[g] = [has |-> TRUE, timer |-> c]
       /\ ~Scheduled(g) => ~instances[g].has

\* after the start one guild waits on its registered poll timer and another guild,
\* which has a row in post_target and none in times, has no tick
ResumedBesideUnscheduled ==
  \E a \in Guilds : \E b \in Guilds \ {a} :
    /\ ready
    /\ \E c \in Chains : chain[a][c].pc = "timer" /\ instances[a].timer = c
    /\ config[b].present /\ times[b] = NoTime
    /\ Active(b) = {}

\* C16: when stopAward(g) returns, the registry has no entry for g
StopRemovesRegistryEntry ==
  [][\A g \in Guilds : StopReturns(g) => ~instances'[g].has]_vars

\* the tick of chain c of g returns in this step
TickCompletes(g, c) ==
  /\ chain[g][c].pc \in {"import", "report"}
  /\ chain'[g][c].pc = "timer"
PendingTimers(ch, g) == {c \in Chains : ch[g][c].pc = "timer"}

\* C17: a tick that returns has set exactly one timer for its guild and put its handle
\* into the registry: the 6.9 day timer at the end of a report body, the 1 second timer
\* when the clock did not match; a tick in flight ends in no other way while the
\* process runs
EveryTickReschedules ==
  [][\A g \in Guilds : \A c \in Chains :
       /\ TickCompletes(g, c) =>
            /\ instances'[g] = [has |-> TRUE, timer |-> c]
            /\ PendingTimers(chain', g) = PendingTimers(chain, g) \cup {c}
            /\ chain[g][c].pc = "report" =>
                 (chain'[g][c].rem = Long /\ chain'[g][c].week)
            /\ chain[g][c].pc = "import" =>
                 /\ now # chain[g][c].target
                 /\ chain'[g][c].rem = Poll /\ ~chain'[g][c].week
       /\ (chain[g][c].pc = "import" /\ ready') =>
            \/ chain'[g][c].pc = "import"
            \/ TickCompletes(g, c)
            \/ chain'[g][c].pc = "report" /\ now = chain[g][c].target
       /\ (chain[g][c].pc = "report" /\ ready') =>
            chain'[g][c].pc = "report" \/ TickCompletes(g, c)]_vars

\* the 6.9 day timer set at the end of a report body is the handle of the registry
WeekTimerRegistered ==
  \E g \in Guilds : \E c \in Chains :
    /\ chain[g][c].pc = "timer" /\ chain[g][c].week /\ chain[g][c].rem = Long
    /\ instances[g] = [has |-> TRUE, timer |-> c]
    /\ posted[g].kind # "none"

\* C18: a tick enters its report body only when the clock shows the weekday, hour and
\* minute the tick was called with; a tick at another slot leaves the tables alone and
\* posts nothing, and the tables and posts change in no step other than a report body
MatchOnlyReporting ==
  [][/\ \A g \in Guilds : \A c \in Chains :
          /\ (chain[g][c].pc # "report" /\ chain'[g][c].pc = "report") =>
               now = chain[g][c].target
          /\ (chain[g][c].pc = "import" /\ chain'[g][c].pc # "import"
                /\ now # chain[g][c].target /\ ready') =>
               /\ chain'[g][c].pc = "timer"
               /\ records' = records /\ posted' = posted
     /\ (records' # records \/ posted' # posted) =>
          \E g \in Guilds : \E c \in Chains :
            /\ chain[g][c].pc = "report" /\ chain'[g][c].pc = "timer"
            /\ \A h \in Guilds \ {g} : posted'[h] = posted[h]]_vars

\* a tick that ran outside of the target slot has set the poll timer and nothing was
\* posted or stored
PolledOffTarget ==
  \E g \in Guilds : \E c \in Chains :
    /\ chain[g][c].pc = "timer" /\ ~chain[g][c].week /\ chain[g][c].rem = Poll
    /\ now # chain[g][c].target
    /\ posted[g] = NothingPosted
    /\ records = <<>>

\* the report body of a tick of g ends in this step
ReportBodyEnds(g) ==
  \E c \in Chains : chain[g][c].pc = "report" /\ chain'[g][c].pc = "timer"
\* the positions of the calls named op in a log
Ops(log, op) == {i \in 1..Len(log) : log[i].op = op}

\* C19: a report body that found its channel first counts the guild's rows older than
\* 7 days, deletes them when there are any, and only then reads the table for the
\* tally; db.vacuum() is called exactly when the count was > 0, right after the
\* delete; no row that was outdated at the cleanup is left or shown in the report
CleanupBeforeTally ==
  [][\A g \in Guilds :
       (ReportBodyEnds(g) /\ posted'[g].kind # "nochannel") =>
         LET log == posted'[g].log
             n == CountOutdated(records, g, RetentionDays, today)
         IN /\ log[1] = Step("count", "db", n)
            /\ Ops(log, "all") # {}
            /\ \A i \in Ops(log, "all") \cup Ops(log, "iterate") :
                 \A j \in Ops(log, "count") \cup Ops(log, "delete") : j < i
            /\ (Ops(log, "vacuum") # {}) <=> (n > 0)
            /\ \A i \in Ops(log, "vacuum") : i > 1 /\ log[i - 1].op = "delete"
            /\ \A i \in Indices(records) :
                 Outdated(records[i], g, RetentionDays, today) =>
                   /\ records[i] \notin Range(records')
                   /\ \A b \in 1..Len(posted'[g].blocks) :
                        <<records[i].channelId, records[i].messageId>>
                          \notin Range(posted'[g].blocks[b].items)]_vars

\* a report was posted after the cleanup had deleted an outdated row of the guild
\* and called db.vacuum()
ReportAfterVacuum ==
  \E g \in Guilds :
    /\ posted[g].kind = "report"
    /\ posted[g].log[1].arg > 0
    /\ Ops(posted[g].log, "vacuum") = {3}

\* the calls of the log that post: channel.send, startThread, thread.send
Posts(log) == SelectSeq(log, LAMBDA e : e.op \in {"send", "startThread"})

\* C20: a report of n >= 1 blocks sends block 1 to the channel; for n > 1 it then opens
\* a thread on that message and sends blocks 2..n into the thread in their order,
\* each once; for n = 1 it opens no thread
PostingOrder ==
  \A g \in Guilds :
    posted[g].kind = "report" =>
      LET n == Len(posted[g].blocks)
          p == Posts(posted[g].log)
      IN /\ n >= 1
         /\ p[1] = Step("send", "channel", 1)
         /\ Len(p) = (IF n > 1 THEN n + 1 ELSE 1)
         /\ n > 1 =>
              /\ p[2].op = "startThread"
              /\ \A i \in 2..n : p[i + 1] = Step("send", "thread", i)

\* a report of three blocks: the first in the channel, the other two in the thread
ThreadCarriesLaterBlocks ==
  \E g \in Guilds :
    /\ posted[g].kind = "report"
    /\ Len(posted[g].blocks) = 3
    /\ Len(Posts(posted[g].log)) = 4

\* the rows of g in table rows that the resolver found a message for
ResolvedOf(rows, g, resolved) ==
  {i \in Indices(rows) : rows[i].guildId = g /\ KeyOf(rows[i]) \in resolved}
\* the items of all blocks
Shown(blocks) == UNION {Range(blocks[b].items) : b \in 1..Len(blocks)}
\* the tick of g has set its 6.9 day timer
WeekTimerSet(ch, g) ==
  \E c \in Chains : ch[g][c].pc = "timer" /\ ch[g][c].week /\ ch[g][c].rem = Long

\* C21: a row of the guild whose message the resolver does not find is in no block;
\* the number of blocks, their counts and their ranks are those of the resolved rows
\* alone, and the tick returns with its 6.9 day timer set
UnresolvedItemsDropped ==
  [][\A g \in Guilds :
       (ReportBodyEnds(g) /\ posted'[g].kind \in {"report", "empty"}) =>
         LET b == posted'[g].blocks
             res == ResolvedOf(records', g, posted'[g].resolved)
             counts == {records'[i].reactionsCount : i \in res}
         IN /\ \A i \in Indices(records') :
                 (records'[i].guildId = g /\ i \notin res) =>
                   <<records'[i].channelId, records'[i].messageId>> \notin Shown(b)
            /\ Len(b) = (IF Cardinality(counts) < TopGroups THEN Cardinality(counts)
                                                           ELSE TopGroups)
            /\ \A k \in 1..Len(b) :
                 /\ b[k].count \in counts
                 /\ b[k].rank =
                      1 + Cardinality({i \in res : records'[i].reactionsCount > b[k].count})
            /\ WeekTimerSet(chain', g)]_vars

\* a report was posted while the row of the guild with the highest count had no
\* resolvable message, and the tick has set its next timer
UnresolvedTopItemDropped ==
  \E g \in Guilds :
    /\ posted[g].kind = "report"
    /\ WeekTimerSet(chain, g)
    /\ \E i \in Indices(records) :
         /\ records[i].guildId = g
         /\ KeyOf(records[i]) \notin posted[g].resolved
         /\ records[i].reactionsCount > posted[g].blocks[1].count

\* C22: fetchMessageByIds is called only for rows of the guild itself, and every item
\* of a block is a resolved row of the guild with the count of the block; rows of
\* other guilds add no item
ReportOnlyOwnRecords ==
  [][\A g \in Guilds :
       (ReportBodyEnds(g) /\ posted'[g].kind \in {"report", "empty"}) =>
         LET b == posted'[g].blocks
             res == ResolvedOf(records', g, posted'[g].resolved)
         IN /\ \A k \in posted'[g].fetched : k[1] = g
            /\ \A n \in 1..Len(b) :
                 /\ Len(b[n].items) =
                      Cardinality({i \in res : records'[i].reactionsCount = b[n].count})
                 /\ \A j \in 1..Len(b[n].items) :
                      \E i \in res :
                        /\ b[n].items[j] = <<records'[i].channelId, records'[i].messageId>>
                        /\ records'[i].reactionsCount = b[n].count]_vars

\* a report of one guild was posted while a row of another guild, with a resolvable
\* message and a count that no block has, was in the table
OtherGuildRowLeftOut ==
  \E g \in Guilds : \E i \in Indices(records) :
    /\ posted[g].kind = "report"
    /\ records[i].guildId # g
    /\ KeyOf(records[i]) \in posted[g].resolved
    /\ records[i].reactionsCount > 0
    /\ \A n \in 1..Len(posted[g].blocks) :
         posted[g].blocks[n].count # records[i].reactionsCount

\* C23: after a tick of g threw and until startAward(g) is called, no timer is set for
\* g and no tick of g starts; the step in which the tick throws leaves the timers and
\* the registry entries of the other guilds as they are
LoopEndsOnError ==
  [][\A g \in Guilds :
       /\ (failed[g] /\ failed'[g]) =>
            /\ ~TickStarts(g)
            /\ PendingTimers(chain', g) \subseteq PendingTimers(chain, g)
       /\ (failed'[g] /\ ~failed[g]) =>
            \A h \in Guilds \ {g} : chain'[h] = chain[h] /\ instances'[h] = instances[h]]_vars

\* C24: a startAward(g) that finds no row of g in post_target or none in times starts
\* no tick and sets no timer, suspends at no await, and leaves the registry and the
\* three tables as they are; a guild without a loop has none afterwards
StartRefusedWithoutRecords ==
  [][\A g \in Guilds :
       (StartAward(g) /\ ~Scheduled(g)) =>
         /\ chain' = chain
         /\ startPc' = startPc
         /\ instances' = instances
         /\ config' = config /\ times' = times /\ records' = records
         /\ (Active(g) = {} => \A c \in Chains : chain'[g][c] = IdleChain)]_vars

\* startAward(g1) was called after a stop and after the row of times was deleted: the
\* registry still holds the handle of the cancelled timer and no tick exists
StartRefusedAfterTimeDeleted ==
  /\ ready
  /\ config["g1"].present /\ times["g1"] = NoTime
  /\ ~stopped["g1"] /\ instances["g1"].has
  /\ startPc["g1"] = NoCall /\ stopPc["g1"] = "idle"
  /\ Active("g1") = {}

\* the rows stored for the message with key k
RowsOfKey(rows, k) ==
  {i \in Indices(rows) : /\ rows[i].guildId = k[1]
                         /\ rows[i].channelId = k[2]
                         /\ rows[i].messageId = k[3]}
\* handler h returns in this step and no handler is left running
LastHandlerReturns(h) ==
  /\ handlers[h].pc = "fetched"
  /\ handlers'[h] = IdleHandler
  /\ \A o \in HandlerIds : handlers'[o].pc = "idle"

\* C25: when the last running handler of a message of a registered guild returns, the
\* table holds no row for the message if the message has no reaction, and otherwise
\* one row whose reactions_count is the number of reactions the message has now
StoredCountIsTotal ==
  [][\A h \in HandlerIds :
       (LastHandlerReturns(h) /\ config[handlers[h].key[1]].present) =>
         LET k == handlers[h].key
         IN IF reactions'[k] = 0
            THEN RowsOfKey(records', k) = {}
            ELSE /\ RowsOfKey(records', k) # {}
                 /\ \A i \in RowsOfKey(records', k) :
                      records'[i].reactionsCount = reactions'[k]]_vars

\* C28: a step adds or changes a row of reacted_messages only for a guild that has a
\* row in post_target at that step
WritesOnlyForRegistered ==
  [][\A i \in Indices(records') :
       records'[i] \notin Range(records) => config[records'[i].guildId].present]_vars

\* the sends to the channel in a log
ChannelSends(log) == {i \in Ops(log, "send") : log[i].to = "channel"}

\* C26: a report body that found its channel sends exactly one message to the channel
OnePrimaryMessage ==
  [][\A g \in Guilds :
       (ReportBodyEnds(g) /\ posted'[g].kind # "nochannel") =>
         Cardinality(ChannelSends(posted'[g].log)) = 1]_vars

\* C27: a report body of g that sends anything sends it to the channel of guild g
\* whose id is config[g].channelId
PostsIntoConfiguredChannel ==
  [][\A g \in Guilds :
       (ReportBodyEnds(g) /\ Ops(posted'[g].log, "send") # {}) =>
         posted'[g].dest = [guildId |-> g, channelId |-> config[g].channelId]]_vars

\* C29: a report body that finds no guild or no channel of the names it was given,
\* or finds a channel that is not a GuildText one, makes no call of db, of a channel
\* or of a thread and leaves the table as it is, and the tick sets its 6.9 day timer
NoChannelNoEffect ==
  [][\A g \in Guilds : \A c \in Chains :
       ( /\ chain[g][c].pc = "report" /\ chain'[g][c].pc = "timer"
         /\ \/ FindChannel(directory, chain[g][c].guildName, chain[g][c].channelName)
                 = NoChannel
            \/ ~textChannel[g] )
       => /\ records' = records
          /\ posted'[g].kind = "nochannel"
          /\ posted'[g].log = <<>>
          /\ posted'[g].blocks = <<>>
          /\ chain'[g][c].week /\ chain'[g][c].rem = Long
          /\ instances'[g] = [has |-> TRUE, timer |-> c]]_vars

\* the tick of g1 found no channel named "award" in the guild named "inugoya": the
\* outdated row of g1 is still stored, nothing was sent, the 6.9 day timer is set
ChannelMissingRowsKept ==
  /\ FindChannel(directory, "inugoya", "award") = NoChannel
  /\ directory # <<>>
  /\ posted["g1"] = NoChannelOutcome
  /\ WeekTimerSet(chain, "g1")
  /\ \E i \in Indices(records) : Outdated(records[i], "g1", RetentionDays, today)

\* C30: one call of deleteOutdated yields a count at most once and the completion
\* signal at most once, and never the completion signal before the count
DeleteOutdatedYieldsOnce ==
  call.op = "deleteOutdated" =>
    LET ys == call.yields
    IN /\ Cardinality({i \in 1..Len(ys) : ys[i] # Completion}) <= 1
       /\ Cardinality({i \in 1..Len(ys) : ys[i] = Completion}) <= 1
       /\ (ys # <<>> => ys[1] # Completion)
====
